---------------------------- MODULE Spec2Model ----------------------------
(***************************************************************************)
(* A model of the prompt text codec (src/src/prompt_parser.py) and of the  *)
(* prompt manager that stores its output (src/src/prompt_manager.py).      *)
(*                                                                         *)
(* A Python str is a sequence of one-character strings.  The str methods   *)
(* the code calls (replace, strip, split, join, partition, startswith,     *)
(* endswith, in, slicing) are operators that compute what CPython computes.*)
(***************************************************************************)
EXTENDS Integers, Sequences, FiniteSets, TLC

\* None; a str is a sequence, and the manager only tests None for truth, as it does ""
None == <<>>

(***************************************************************************)
(* Python str primitives                                                   *)
(***************************************************************************)

\* str.strip() with no argument removes these characters.
IsSpace(c) == c \in {" ", "\n", "\t", "\r"}

StartsWith(s, p) == Len(s) >= Len(p) /\ SubSeq(s, 1, Len(p)) = p

EndsWith(s, p) == Len(s) >= Len(p) /\ SubSeq(s, Len(s) - Len(p) + 1, Len(s)) = p

\* sub in s
Contains(s, sub) == \E i \in 1..(Len(s) - Len(sub) + 1) : SubSeq(s, i, i + Len(sub) - 1) = sub

RECURSIVE Replace(_, _, _)
\* s.replace(old, new): leftmost, non-overlapping occurrences (old is not empty)
Replace(s, old, new) ==
    IF Len(s) < Len(old) THEN s
    ELSE IF SubSeq(s, 1, Len(old)) = old
         THEN new \o Replace(SubSeq(s, Len(old) + 1, Len(s)), old, new)
         ELSE <<Head(s)>> \o Replace(Tail(s), old, new)

RECURSIVE LStrip(_)
LStrip(s) == IF s # <<>> /\ IsSpace(Head(s)) THEN LStrip(Tail(s)) ELSE s

RECURSIVE RStrip(_)
RStrip(s) == IF s # <<>> /\ IsSpace(s[Len(s)]) THEN RStrip(SubSeq(s, 1, Len(s) - 1)) ELSE s

\* s.strip()
Strip(s) == RStrip(LStrip(s))

RECURSIVE SplitFrom(_, _, _)
SplitFrom(s, sep, cur) ==
    IF Len(s) < Len(sep) THEN <<cur \o s>>
    ELSE IF SubSeq(s, 1, Len(sep)) = sep
         THEN <<cur>> \o SplitFrom(SubSeq(s, Len(sep) + 1, Len(s)), sep, <<>>)
         ELSE SplitFrom(Tail(s), sep, Append(cur, Head(s)))

\* s.split(sep): always at least one piece
Split(s, sep) == SplitFrom(s, sep, <<>>)

RECURSIVE Join(_, _)
\* sep.join(lines)
Join(lines, sep) ==
    IF lines = <<>> THEN <<>>
    ELSE IF Len(lines) = 1 THEN lines[1]
    ELSE lines[1] \o sep \o Join(Tail(lines), sep)

\* s.partition(c) for a one-character separator: <<before, after>>
Partition(s, c) ==
    IF \E i \in 1..Len(s) : s[i] = c
    THEN LET i == CHOOSE k \in 1..Len(s) : s[k] = c /\ \A j \in 1..(k - 1) : s[j] # c
         IN  <<SubSeq(s, 1, i - 1), SubSeq(s, i + 1, Len(s))>>
    ELSE <<s, <<>>>>

\* s[2:-2]
Inner(s) == IF Len(s) < 4 THEN <<>> ELSE SubSeq(s, 3, Len(s) - 2)

(***************************************************************************)
(* Text constants of prompt_parser.py                                      *)
(***************************************************************************)

\* PromptParser.DELIMITER = "\n\n"
DELIMITER == <<"\n", "\n">>

HumanStr == <<"H", "u", "m", "a", "n">>
AIStr == <<"A", "I">>
SystemStr == <<"S", "y", "s", "t", "e", "m">>
UnknownStr == <<"U", "n", "k", "n", "o", "w", "n">>

(***************************************************************************)
(* The langchain objects the codec reads and builds.  An entry of a chat   *)
(* prompt is [cls, body, input_variables]: cls is its concrete class and   *)
(* body is variable_name (MessagesPlaceholder), prompt.template (a message *)
(* prompt template) or content (a static message); input_variables is      *)
(* prompt.input_variables, empty for the classes that have no prompt.      *)
(***************************************************************************)

HumanClasses == {"HumanMessage", "HumanMessagePromptTemplate"}
AIClasses == {"AIMessage", "AIMessagePromptTemplate"}
SystemClasses == {"SystemMessage", "SystemMessagePromptTemplate"}
\* classes of langchain that are none of the six the role mapping names
OtherClasses == {"ChatMessage", "ChatMessagePromptTemplate"}
MessageClasses == HumanClasses \cup AIClasses \cup SystemClasses \cup OtherClasses
EntryClasses == MessageClasses \cup {"MessagesPlaceholder"}

\* hasattr(msg, "prompt")
HasPrompt(msg) ==
    msg.cls \in {"HumanMessagePromptTemplate", "AIMessagePromptTemplate",
                 "SystemMessagePromptTemplate", "ChatMessagePromptTemplate"}

(***************************************************************************)
(* from_template parses its argument with string.Formatter().parse and     *)
(* raises ValueError where that does.  FormatField reads one replacement   *)
(* field after its "{"; FormatParse is the whole scan.  The conversion     *)
(* mark "!" and the index brackets "[" "]" are read as plain characters:   *)
(* no text of the model contains them.                                     *)
(***************************************************************************)

RECURSIVE FormatSpec(_, _)
\* the format spec after ":", nested braces counted; the text after the field, or raise
FormatSpec(s, count) ==
    IF s = <<>> THEN [ok |-> FALSE, rest |-> <<>>]
    ELSE IF Head(s) = "{" THEN FormatSpec(Tail(s), count + 1)
    ELSE IF Head(s) = "}"
         THEN IF count = 1 THEN [ok |-> TRUE, rest |-> Tail(s)]
              ELSE FormatSpec(Tail(s), count - 1)
    ELSE FormatSpec(Tail(s), count)

RECURSIVE FormatField(_, _)
\* the field name up to "}" or ":"; "{" in it, or the end of the text, raises
FormatField(s, name) ==
    IF s = <<>> THEN [ok |-> FALSE, name |-> name, rest |-> <<>>]
    ELSE IF Head(s) = "{" THEN [ok |-> FALSE, name |-> name, rest |-> <<>>]
    ELSE IF Head(s) = "}" THEN [ok |-> TRUE, name |-> name, rest |-> Tail(s)]
    ELSE IF Head(s) = ":"
         THEN LET spec == FormatSpec(Tail(s), 1)
              IN  [ok |-> spec.ok, name |-> name, rest |-> spec.rest]
    ELSE FormatField(Tail(s), Append(name, Head(s)))

RECURSIVE FormatParse(_)
\* [ok, fields]: whether the text parses, and the field names it holds
FormatParse(s) ==
    IF s = <<>> THEN [ok |-> TRUE, fields |-> {}]
    ELSE IF Head(s) = "}"
         THEN IF Len(s) >= 2 /\ s[2] = "}" THEN FormatParse(SubSeq(s, 3, Len(s)))
              ELSE [ok |-> FALSE, fields |-> {}]
    ELSE IF Head(s) = "{"
         THEN IF Len(s) = 1 THEN [ok |-> FALSE, fields |-> {}]
              ELSE IF s[2] = "{" THEN FormatParse(SubSeq(s, 3, Len(s)))
              ELSE LET f == FormatField(Tail(s), <<>>)
                       r == IF f.ok THEN FormatParse(f.rest) ELSE [ok |-> FALSE, fields |-> {}]
                   IN  [ok |-> r.ok, fields |-> IF r.ok THEN {f.name} \cup r.fields ELSE {}]
    ELSE FormatParse(Tail(s))

\* message_class.from_template(template): the built object, or the ValueError
from_template(cls, template) ==
    LET parsed == FormatParse(template)
    IN  IF parsed.ok
        THEN [raised |-> FALSE,
              msg |-> [cls |-> cls, body |-> template, input_variables |-> parsed.fields]]
        ELSE [raised |-> TRUE,
              msg |-> [cls |-> cls, body |-> template, input_variables |-> {}]]

\* message_class(content=content)
static_message(cls, content) == [cls |-> cls, body |-> content, input_variables |-> {}]

\* MessagesPlaceholder(variable_name=name)
placeholder(name) == [cls |-> "MessagesPlaceholder", body |-> name, input_variables |-> {}]

(***************************************************************************)
(* PromptParser: the encoder                                               *)
(***************************************************************************)

\* a _get_message_role whose mapping has lost the system classes
get_message_role_no_system(message) ==
    IF message.cls \in HumanClasses THEN HumanStr
    ELSE IF message.cls \in AIClasses THEN AIStr
    ELSE UnknownStr

\* PromptParser._get_message_role
get_message_role(message) ==
    IF message.cls \in HumanClasses THEN HumanStr
    ELSE IF message.cls \in AIClasses THEN AIStr
    ELSE IF message.cls \in SystemClasses THEN SystemStr
    ELSE UnknownStr

\* an escaping that leaves the delimiter in the content
escape_content_keep_delimiter(content) ==
    Replace(Replace(content, <<"{">>, <<"{", "{">>), <<"}">>, <<"}", "}">>)

\* content.replace("{", "{{").replace("}", "}}").replace(self.DELIMITER, "")
escape_content(content) ==
    Replace(Replace(Replace(content, <<"{">>, <<"{", "{">>), <<"}">>, <<"}", "}">>),
            DELIMITER, <<>>)

\* the line one entry of the prompt appends to prompt_lines
prompt_line(msg) ==
    IF msg.cls = "MessagesPlaceholder"
    THEN <<"{", "{">> \o msg.body \o <<"}", "}">>
    ELSE get_message_role(msg) \o <<":", " ">> \o escape_content(msg.body)

\* a loop that forgets the name of a placeholder
line_variables_no_placeholder(msg) ==
    IF msg.cls # "MessagesPlaceholder" /\ HasPrompt(msg) THEN msg.input_variables ELSE {}

\* the names one entry of the prompt adds to input_variables
line_variables(msg) ==
    IF msg.cls = "MessagesPlaceholder" THEN {msg.body}
    ELSE IF HasPrompt(msg) THEN msg.input_variables
    ELSE {}

RECURSIVE convert_loop(_, _, _)
\* the for loop of convert_chat_prompt_to_text
convert_loop(messages, prompt_lines, input_variables) ==
    IF messages = <<>>
    THEN [prompt_lines |-> prompt_lines, input_variables |-> input_variables]
    ELSE convert_loop(Tail(messages),
                      Append(prompt_lines, prompt_line(Head(messages))),
                      input_variables \cup line_variables(Head(messages)))

\* list(a_set): the order of a set of str is the hash order of the run, any order
ListOf(S) ==
    {f \in [1..Cardinality(S) -> S] : \A i, j \in 1..Cardinality(S) : f[i] = f[j] => i = j}

\* PromptParser.convert_chat_prompt_to_text: every (text, variable list) it may return
convert_chat_prompt_to_text(chat_prompt) ==
    LET r == convert_loop(chat_prompt, <<>>, {})
    IN  {[prompt_lines |-> r.prompt_lines, text |-> Join(r.prompt_lines, DELIMITER),
          input_variables |-> vars] : vars \in ListOf(r.input_variables)}

\* an is_chat_prompt that takes the Unknown label for a role as well
is_chat_prompt_any_label(prompt_text) ==
    \E role \in {HumanStr, AIStr, SystemStr, UnknownStr} :
        StartsWith(prompt_text, role \o <<":">>)

\* an is_chat_prompt that does not look for the System label
is_chat_prompt_no_system(prompt_text) ==
    \E role \in {HumanStr, AIStr} : StartsWith(prompt_text, role \o <<":">>)

\* PromptParser.is_chat_prompt
is_chat_prompt(prompt_text) ==
    \E role \in {HumanStr, AIStr, SystemStr} : StartsWith(prompt_text, role \o <<":">>)

(***************************************************************************)
(* PromptParser: the decoder                                               *)
(***************************************************************************)

\* is_template = "{{" in content and "}}" in content
is_template(content) == Contains(content, <<"{", "{">>) /\ Contains(content, <<"}", "}">>)

\* a mapping whose default is the human pair
message_class_human_default(role, template) ==
    IF role = AIStr
    THEN (IF template THEN "AIMessagePromptTemplate" ELSE "AIMessage")
    ELSE IF role = SystemStr
    THEN (IF template THEN "SystemMessagePromptTemplate" ELSE "SystemMessage")
    ELSE (IF template THEN "HumanMessagePromptTemplate" ELSE "HumanMessage")

\* message_mapping.get(role, default): the class the role label and is_template pick
message_class(role, template) ==
    IF role = HumanStr
    THEN (IF template THEN "HumanMessagePromptTemplate" ELSE "HumanMessage")
    ELSE IF role = AIStr
    THEN (IF template THEN "AIMessagePromptTemplate" ELSE "AIMessage")
    ELSE IF role = SystemStr
    THEN (IF template THEN "SystemMessagePromptTemplate" ELSE "SystemMessage")
    ELSE (IF template THEN "SystemMessagePromptTemplate" ELSE "SystemMessage")

\* an unescaping of the opening braces only
unescape_content_open_only(content) == Replace(content, <<"{", "{">>, <<"{">>)

\* content.replace("{{", "{").replace("}}", "}")
unescape_content(content) ==
    Replace(Replace(content, <<"{", "{">>, <<"{">>), <<"}", "}">>, <<"}">>)

\* one iteration of the loop of parse_chat_messages on a piece of the split:
\* skip (continue), append a message, or raise
parse_line(piece) ==
    LET line == Strip(piece)
        parts == Partition(line, ":")
        role == Strip(parts[1])
        content == Strip(parts[2])
        cls == message_class(role, is_template(content))
    IN  IF line = <<>> THEN [act |-> "skip", msg |-> placeholder(<<>>)]
        ELSE IF StartsWith(line, <<"{", "{">>) /\ EndsWith(line, <<"}", "}">>)
        THEN [act |-> "append", msg |-> placeholder(Strip(Inner(line)))]
        ELSE IF content = <<>> THEN [act |-> "skip", msg |-> placeholder(<<>>)]
        ELSE IF is_template(content)
        THEN LET built == from_template(cls, unescape_content(content))
             IN  [act |-> IF built.raised THEN "raise" ELSE "append", msg |-> built.msg]
        ELSE [act |-> "append", msg |-> static_message(cls, content)]

RECURSIVE parse_loop(_, _)
\* the for loop of parse_chat_messages: the messages built, or where it raised
parse_loop(pieces, messages) ==
    IF pieces = <<>> THEN [raised |-> FALSE, messages |-> messages]
    ELSE LET step == parse_line(Head(pieces))
         IN  IF step.act = "raise" THEN [raised |-> TRUE, messages |-> messages]
             ELSE IF step.act = "append"
                  THEN parse_loop(Tail(pieces), Append(messages, step.msg))
             ELSE parse_loop(Tail(pieces), messages)

\* PromptParser.parse_chat_messages
parse_chat_messages(prompt_text) == parse_loop(Split(Strip(prompt_text), DELIMITER), <<>>)

(***************************************************************************)
(* PromptParser.convert_prompt_template_to_text.  A prompt template is     *)
(* [kind, template, input_variables, messages]: kind is its class,         *)
(* template and input_variables are those of a PromptTemplate, messages    *)
(* those of a ChatPromptTemplate.                                          *)
(***************************************************************************)

\* a conversion that takes a template of any other class for a plain one
convert_prompt_template_to_text_any_kind(prompt_template) ==
    IF prompt_template.kind = "ChatPromptTemplate"
    THEN [raised |-> FALSE,
          results |-> {[text |-> r.text, input_variables |-> r.input_variables] :
                          r \in convert_chat_prompt_to_text(prompt_template.messages)}]
    ELSE [raised |-> FALSE,
          results |-> {[text |-> Replace(Replace(prompt_template.template,
                                                 <<"{">>, <<"{", "{">>),
                                         <<"}">>, <<"}", "}">>),
                        input_variables |-> prompt_template.input_variables]}]

\* [raised, results]: the TypeError, or every (text, variable list) it may return
convert_prompt_template_to_text(prompt_template) ==
    IF prompt_template.kind = "PromptTemplate"
    THEN [raised |-> FALSE,
          results |-> {[text |-> Replace(Replace(prompt_template.template,
                                                 <<"{">>, <<"{", "{">>),
                                         <<"}">>, <<"}", "}">>),
                        input_variables |-> prompt_template.input_variables]}]
    ELSE IF prompt_template.kind = "ChatPromptTemplate"
    THEN [raised |-> FALSE,
          results |-> {[text |-> r.text, input_variables |-> r.input_variables] :
                          r \in convert_chat_prompt_to_text(prompt_template.messages)}]
    ELSE [raised |-> TRUE, results |-> {}]

(***************************************************************************)
(* The Bedrock Agent service the manager calls: [prompts, allocated].      *)
(* prompts maps the id of each stored prompt to [name, text,               *)
(* inputVariables, versions, numbered]: versions are the numbers of its    *)
(* versions and numbered counts those made.  allocated counts the ids      *)
(* given out; an id is <<n>>.  Every call may fail with a ClientError      *)
(* (fail), and a name is given to one prompt only.                         *)
(***************************************************************************)

\* PromptManager._create_variant: the text configuration of the variant
create_variant(prompt_text, input_variables) ==
    [text |-> prompt_text, inputVariables |-> input_variables]

\* PromptManager._build_create_prompt_args
build_create_prompt_args(name, variant) ==
    [api |-> "create_prompt", name |-> name, promptIdentifier |-> None,
     promptVersion |-> 0, variant |-> variant]

\* a request that names a prompt, and a version or 0 for none
prompt_request(api, promptIdentifier, promptVersion) ==
    [api |-> api, name |-> None, promptIdentifier |-> promptIdentifier,
     promptVersion |-> promptVersion, variant |-> create_variant(<<>>, <<>>)]

NameTaken(b, name) == \E id \in DOMAIN b.prompts : b.prompts[id].name = name

\* self._bedrock_client.create_prompt(**create_prompt_args)
client_create_prompt(b, args, fail) ==
    IF fail \/ NameTaken(b, args.name)
    THEN [raised |-> TRUE, id |-> None, bedrock |-> b]
    ELSE LET id == <<b.allocated + 1>>
             stored == [name |-> args.name, text |-> args.variant.text,
                        inputVariables |-> args.variant.inputVariables, versions |-> {},
                        numbered |-> 0]
         IN  [raised |-> FALSE, id |-> id,
              bedrock |-> [prompts |-> [i \in DOMAIN b.prompts \cup {id} |->
                                           IF i = id THEN stored ELSE b.prompts[i]],
                           allocated |-> b.allocated + 1]]

\* self._bedrock_client.create_prompt_version(promptIdentifier=...)
client_create_prompt_version(b, args, fail) ==
    IF fail \/ args.promptIdentifier \notin DOMAIN b.prompts
    THEN [raised |-> TRUE, bedrock |-> b]
    ELSE LET old == b.prompts[args.promptIdentifier]
         IN  [raised |-> FALSE,
              bedrock |-> [b EXCEPT !.prompts[args.promptIdentifier] =
                              [old EXCEPT !.versions = @ \cup {old.numbered + 1},
                                          !.numbered = @ + 1]]]

\* whether the service holds the prompt, in the version asked for
Stored(b, args) ==
    /\ args.promptIdentifier \in DOMAIN b.prompts
    /\ args.promptVersion = 0
         \/ args.promptVersion \in b.prompts[args.promptIdentifier].versions

\* self._bedrock_client.delete_prompt(promptIdentifier=..., promptVersion=...)
client_delete_prompt(b, args, fail) ==
    IF fail \/ ~Stored(b, args)
    THEN [raised |-> TRUE, bedrock |-> b]
    ELSE IF args.promptVersion = 0
    THEN [raised |-> FALSE,
          bedrock |-> [b EXCEPT !.prompts =
                          [i \in DOMAIN b.prompts \ {args.promptIdentifier} |-> b.prompts[i]]]]
    ELSE [raised |-> FALSE,
          bedrock |-> [b EXCEPT !.prompts[args.promptIdentifier].versions =
                                    @ \ {args.promptVersion}]]

\* self._bedrock_client.get_prompt(...): the variants of the response
client_get_prompt(b, args, fail) ==
    IF fail \/ ~Stored(b, args)
    THEN [raised |-> TRUE, variants |-> <<>>]
    ELSE [raised |-> FALSE,
          variants |-> <<create_variant(b.prompts[args.promptIdentifier].text,
                                        b.prompts[args.promptIdentifier].inputVariables)>>]

RECURSIVE SummariesFrom(_, _)
SummariesFrom(b, n) ==
    IF n > b.allocated THEN <<>>
    ELSE (IF <<n>> \in DOMAIN b.prompts
          THEN <<[id |-> <<n>>, name |-> b.prompts[<<n>>].name]>> ELSE <<>>)
         \o SummariesFrom(b, n + 1)

\* self._bedrock_client.list_prompts(...): the promptSummaries of the response
client_list_prompts(b, fail) ==
    IF fail THEN [raised |-> TRUE, promptSummaries |-> <<>>]
    ELSE [raised |-> FALSE, promptSummaries |-> SummariesFrom(b, 1)]

\* prompt_id or self._prompt_id
FirstTrue(a, b) == IF a # None THEN a ELSE b

(***************************************************************************)
(* The inputs.  A chat prompt is written as a sequence of at most          *)
(* MaxTokens tokens: a class name opens an entry of that class, a          *)
(* character extends the body of the entry last opened.  A message prompt  *)
(* template holds a template that from_template accepted, with the         *)
(* input_variables it derived.  A flat text handed to the decoder is the   *)
(* concatenation of at most MaxPieces pieces.                              *)
(***************************************************************************)

MaxTokens == 4
MaxPieces == 5
\* the calls made on one PromptManager
MaxCalls == 3

BodyChars == {"{", "}", "\n", "a"}

TextPieces ==
    {HumanStr, AIStr, SystemStr, UnknownStr,
     <<":">>, <<"a">>, <<"\n">>, DELIMITER, <<"{", "{">>, <<"}", "}">>}

RECURSIVE BuildPrompt(_, _)
BuildPrompt(tokens, entries) ==
    IF tokens = <<>> THEN entries
    ELSE IF Head(tokens) \in EntryClasses
         THEN BuildPrompt(Tail(tokens),
                          Append(entries, [cls |-> Head(tokens), body |-> <<>>,
                                           input_variables |-> {}]))
         ELSE BuildPrompt(Tail(tokens),
                          [entries EXCEPT ![Len(entries)].body = Append(@, Head(tokens))])

\* input_variables of each message prompt template, as from_template sets it
WithVariables(entries) ==
    [i \in 1..Len(entries) |->
        IF HasPrompt(entries[i])
        THEN [entries[i] EXCEPT !.input_variables = FormatParse(entries[i].body).fields]
        ELSE entries[i]]

Constructible(entries) ==
    \A i \in 1..Len(entries) : HasPrompt(entries[i]) => FormatParse(entries[i].body).ok

\* the token sequences that write a prompt: the first token opens an entry
Tokens == EntryClasses \cup BodyChars

\* contents longer than the tokens write: their braces match and they are no
\* format string
NestedBodies == {<<"{", "{", "}", "a", "}">>, <<"{", "a", "{", "}", "}">>}

\* prompts of one entry longer than the tokens write: a message with such a
\* content, a placeholder whose name holds the delimiter
LongPrompts ==
    {<<static_message(cls, body)>> :
        cls \in {c \in MessageClasses : ~HasPrompt([cls |-> c])}, body \in NestedBodies}
    \cup {<<placeholder(<<"a", "\n", "\n", "a">>)>>}

NoTemplate == [kind |-> "None", template |-> <<>>, input_variables |-> <<>>, messages |-> <<>>]

\* PromptTemplate(input_variables=..., template=...)
PlainTemplate(template, variables) ==
    [kind |-> "PromptTemplate", template |-> template, input_variables |-> variables,
     messages |-> <<>>]

\* ChatPromptTemplate.from_messages(messages)
ChatTemplate(messages) ==
    [kind |-> "ChatPromptTemplate", template |-> <<>>, input_variables |-> <<>>,
     messages |-> messages]

\* the prompt templates handed to create_prompt: plain ones, chat ones, and one of
\* a class that is neither
PromptTemplates ==
    {PlainTemplate(<<"a", "{", "b", "}", "{", "a", "}">>, <<<<"b">>, <<"a">>>>),
     PlainTemplate(HumanStr \o <<":", "a">>, <<>>),
     ChatTemplate(WithVariables(<<static_message("SystemMessage", <<"a">>),
                                  [cls |-> "HumanMessagePromptTemplate",
                                   body |-> <<"{", "a", "}">>, input_variables |-> {}]>>)),
     ChatTemplate(<<placeholder(<<"a">>), static_message("HumanMessage", <<"a">>)>>),
     ChatTemplate(<<static_message("ChatMessage", <<"a">>)>>),
     ChatTemplate(<<static_message("HumanMessage", <<"}", "{">>)>>),
     [NoTemplate EXCEPT !.kind = "FewShotPromptTemplate"]}

PromptNames == {<<"m">>, <<"n">>}

RECURSIVE Concat(_)
Concat(pieces) == IF pieces = <<>> THEN <<>> ELSE Head(pieces) \o Concat(Tail(pieces))

(***************************************************************************)
(* State                                                                   *)
(***************************************************************************)

VARIABLES
    chat_prompt,    \* the ChatPromptTemplate given to the encoder: its messages
    prompt_lines,   \* the lines convert_chat_prompt_to_text joined
    prompt_text,    \* the flat text: the encoder's output, the decoder's input
    input_variables,\* the variable list convert_chat_prompt_to_text returned
    parsed,         \* what parse_chat_messages did: [raised, messages]
    is_chat,        \* what is_chat_prompt returned
    called          \* which of the three have run

VARIABLES
    prompt_id,      \* PromptManager._prompt_id
    bedrock,        \* the service behind PromptManager._bedrock_client
    last,           \* the last call on the manager: what it did and how it ended
    calls           \* the calls made so far, each with how it ended

codec_vars == <<chat_prompt, prompt_lines, prompt_text, input_variables, parsed, is_chat, called>>

manager_vars == <<prompt_id, bedrock, last, calls>>

vars == <<codec_vars, manager_vars>>

\* PromptManager.__init__, and a service that stores nothing yet
NewManager ==
    /\ prompt_id = None
    /\ bedrock = [prompts |-> <<>>, allocated |-> 0]
    /\ last = [op |-> "__init__", prompt_template |-> NoTemplate, outcome |-> "returned",
               issued |-> <<>>, result |-> NoTemplate, prompt |-> None]
    /\ calls = <<>>

NotParsed == [raised |-> FALSE, messages |-> <<>>]

\* text, variables = parser.convert_chat_prompt_to_text(chat_prompt)
ConvertChatPrompt ==
    /\ "convert" \notin called
    /\ \E r \in convert_chat_prompt_to_text(chat_prompt) :
          /\ prompt_lines' = r.prompt_lines
          /\ prompt_text' = r.text
          /\ input_variables' = r.input_variables
    /\ called' = called \cup {"convert"}
    /\ UNCHANGED <<chat_prompt, parsed, is_chat>>
    /\ UNCHANGED manager_vars

\* messages = parser.parse_chat_messages(prompt_text)
ParseChatMessages ==
    /\ "text" \in called \/ "convert" \in called
    /\ "parse" \notin called
    /\ parsed' = parse_chat_messages(prompt_text)
    /\ called' = called \cup {"parse"}
    /\ UNCHANGED <<chat_prompt, prompt_lines, prompt_text, input_variables, is_chat>>
    /\ UNCHANGED manager_vars

\* parser.is_chat_prompt(prompt_text)
IsChatPrompt ==
    /\ "convert" \in called
    /\ "classify" \notin called
    /\ is_chat' = is_chat_prompt(prompt_text)
    /\ called' = called \cup {"classify"}
    /\ UNCHANGED <<chat_prompt, prompt_lines, prompt_text, input_variables, parsed>>
    /\ UNCHANGED manager_vars

\* encode a chat prompt, then decode and classify the text
InitCodec ==
    /\ \/ \E n \in 0..MaxTokens : \E t \in [1..n -> Tokens] :
             /\ t # <<>> => t[1] \in EntryClasses
             /\ Constructible(BuildPrompt(t, <<>>))
             /\ chat_prompt = WithVariables(BuildPrompt(t, <<>>))
       \/ chat_prompt \in LongPrompts
    /\ prompt_lines = <<>>
    /\ prompt_text = <<>>
    /\ input_variables = <<>>
    /\ parsed = NotParsed
    /\ is_chat = FALSE
    /\ called = {}
    /\ NewManager

NextCodec == ConvertChatPrompt \/ ParseChatMessages \/ IsChatPrompt

SpecCodec == InitCodec /\ [][NextCodec]_vars

\* decode any flat text
InitParse ==
    /\ chat_prompt = <<>>
    /\ prompt_lines = <<>>
    /\ \E n \in 0..MaxPieces : \E t \in [1..n -> TextPieces] : prompt_text = Concat(t)
    /\ input_variables = <<>>
    /\ parsed = NotParsed
    /\ is_chat = FALSE
    /\ called = {"text"}
    /\ NewManager

NextParse == ParseChatMessages

SpecParse == InitParse /\ [][NextParse]_vars

(***************************************************************************)
(* PromptManager                                                           *)
(***************************************************************************)

Ended(op, prompt_template, outcome, issued, result, prompt) ==
    [op |-> op, prompt_template |-> prompt_template, outcome |-> outcome,
     issued |-> issued, result |-> result, prompt |-> prompt]

\* PromptManager.create_prompt
CreatePrompt(prompt_template, name, fail) ==
    /\ Len(calls) < MaxCalls
    /\ LET encoded == convert_prompt_template_to_text(prompt_template)
       IN  IF encoded.raised
           THEN \* the TypeError is no BotoCoreError or ClientError: it leaves the method
                /\ last' = Ended("create_prompt", prompt_template, "TypeError", <<>>,
                                 NoTemplate, None)
                /\ UNCHANGED <<prompt_id, bedrock>>
           ELSE \E r \in encoded.results :
                   LET variant == create_variant(r.text, r.input_variables)
                       args == build_create_prompt_args(name, variant)
                       response == client_create_prompt(bedrock, args, fail)
                   IN  /\ bedrock' = response.bedrock
                       /\ prompt_id' = IF response.raised THEN prompt_id ELSE response.id
                       /\ last' = Ended("create_prompt", prompt_template,
                                        IF response.raised THEN "ClientError" ELSE "returned",
                                        <<args>>, NoTemplate, response.id)
    /\ calls' = Append(calls, [op |-> last'.op, outcome |-> last'.outcome])
    /\ UNCHANGED codec_vars

\* PromptManager.create_prompt_version
CreatePromptVersion(prompt_id_arg, fail) ==
    /\ Len(calls) < MaxCalls
    /\ LET args == prompt_request("create_prompt_version",
                                  FirstTrue(prompt_id_arg, prompt_id), 0)
           response == client_create_prompt_version(bedrock, args, fail)
       IN  IF args.promptIdentifier = None
           THEN \* the None is filtered out and the client rejects the call unsent
                /\ last' = Ended("create_prompt_version", NoTemplate, "BotoCoreError",
                                 <<>>, NoTemplate, None)
                /\ UNCHANGED bedrock
           ELSE /\ bedrock' = response.bedrock
                /\ last' = Ended("create_prompt_version", NoTemplate,
                                 IF response.raised THEN "ClientError" ELSE "returned",
                                 <<args>>, NoTemplate, None)
    /\ calls' = Append(calls, [op |-> last'.op, outcome |-> last'.outcome])
    /\ UNCHANGED prompt_id
    /\ UNCHANGED codec_vars

\* PromptManager.list_prompts: the summaries it returns, or the error
list_prompts(name, fail) ==
    LET response == client_list_prompts(bedrock, fail)
        Kept(prompt) == name = None \/ prompt.name = name
    IN  [raised |-> response.raised,
         issued |-> <<prompt_request("list_prompts", None, 0)>>,
         prompts |-> SelectSeq(response.promptSummaries, Kept)]

\* a get_prompt that undoes the brace doubling before it builds the plain template
read_template_undoubled(variants, return_chat_template) ==
    IF variants = <<>> THEN [outcome |-> "returned", result |-> NoTemplate]
    ELSE LET prompt_text_read == variants[1].text
             messages == parse_chat_messages(prompt_text_read)
         IN  IF is_chat_prompt(prompt_text_read) /\ return_chat_template
             THEN (IF messages.raised
                   THEN [outcome |-> "ValueError", result |-> NoTemplate]
                   ELSE [outcome |-> "returned", result |-> ChatTemplate(messages.messages)])
             ELSE [outcome |-> "returned",
                   result |-> PlainTemplate(unescape_content(prompt_text_read),
                                            variants[1].inputVariables)]

\* the end of get_prompt once the response is there: the template it builds
read_template(variants, return_chat_template) ==
    IF variants = <<>> THEN [outcome |-> "returned", result |-> NoTemplate]
    ELSE LET prompt_text_read == variants[1].text
             messages == parse_chat_messages(prompt_text_read)
         IN  IF is_chat_prompt(prompt_text_read) /\ return_chat_template
             THEN (IF messages.raised
                   THEN [outcome |-> "ValueError", result |-> NoTemplate]
                   ELSE [outcome |-> "returned", result |-> ChatTemplate(messages.messages)])
             ELSE [outcome |-> "returned",
                   result |-> PlainTemplate(prompt_text_read, variants[1].inputVariables)]

\* PromptManager.get_prompt; fail names the call of the client that fails, if any
GetPrompt(prompt_id_arg, name, prompt_version, return_chat_template, fail) ==
    /\ Len(calls) < MaxCalls
    /\ LET listed == list_prompts(name, fail = "list_prompts")
           found == IF name = None THEN prompt_id_arg
                    ELSE IF listed.prompts # <<>> THEN listed.prompts[1].id ELSE None
           before == IF name = None THEN <<>> ELSE listed.issued
           args == prompt_request("get_prompt", FirstTrue(found, prompt_id), prompt_version)
           response == client_get_prompt(bedrock, args, fail = "get_prompt")
           built == read_template(response.variants, return_chat_template)
       IN  last' =
             IF prompt_id_arg = None /\ name = None /\ prompt_id = None
             THEN Ended("get_prompt", NoTemplate, "ValueError", <<>>, NoTemplate, None)
             ELSE IF name # None /\ listed.raised
             THEN Ended("get_prompt", NoTemplate, "ClientError", before, NoTemplate, None)
             ELSE IF name # None /\ found = None
             THEN Ended("get_prompt", NoTemplate, "returned", before, NoTemplate, None)
             ELSE IF response.raised
             THEN Ended("get_prompt", NoTemplate, "ClientError", Append(before, args),
                        NoTemplate, None)
             ELSE Ended("get_prompt", NoTemplate, built.outcome, Append(before, args),
                        built.result,
                        IF built.result = NoTemplate THEN None ELSE args.promptIdentifier)
    /\ calls' = Append(calls, [op |-> last'.op, outcome |-> last'.outcome])
    /\ UNCHANGED <<prompt_id, bedrock>>
    /\ UNCHANGED codec_vars

\* PromptManager.list_prompts
ListPrompts(name, fail) ==
    /\ Len(calls) < MaxCalls
    /\ LET listed == list_prompts(name, fail)
       IN  last' = Ended("list_prompts", NoTemplate,
                         IF listed.raised THEN "ClientError" ELSE "returned",
                         listed.issued, NoTemplate, None)
    /\ calls' = Append(calls, [op |-> last'.op, outcome |-> last'.outcome])
    /\ UNCHANGED <<prompt_id, bedrock>>
    /\ UNCHANGED codec_vars

\* PromptManager.delete_prompt
DeletePrompt(prompt_id_arg, prompt_version, fail) ==
    /\ Len(calls) < MaxCalls
    /\ LET args == prompt_request("delete_prompt", FirstTrue(prompt_id_arg, prompt_id),
                                  prompt_version)
           response == client_delete_prompt(bedrock, args, fail)
       IN  IF args.promptIdentifier = None
           THEN /\ last' = Ended("delete_prompt", NoTemplate, "BotoCoreError", <<>>,
                                 NoTemplate, None)
                /\ UNCHANGED bedrock
           ELSE /\ bedrock' = response.bedrock
                /\ last' = Ended("delete_prompt", NoTemplate,
                                 IF response.raised THEN "ClientError" ELSE "returned",
                                 <<args>>, NoTemplate, None)
    /\ calls' = Append(calls, [op |-> last'.op, outcome |-> last'.outcome])
    /\ UNCHANGED prompt_id
    /\ UNCHANGED codec_vars

\* the ids and versions a caller may name: None (0 for no version) or one given out
PromptIdArgs == {None} \cup {<<n>> : n \in 1..bedrock.allocated}
VersionArgs == {0, 1}

InitManager ==
    /\ chat_prompt = <<>>
    /\ prompt_lines = <<>>
    /\ prompt_text = <<>>
    /\ input_variables = <<>>
    /\ parsed = NotParsed
    /\ is_chat = FALSE
    /\ called = {}
    /\ NewManager

NextManager ==
    \/ \E t \in PromptTemplates, name \in PromptNames, fail \in BOOLEAN :
          CreatePrompt(t, name, fail)
    \/ \E id \in PromptIdArgs, fail \in BOOLEAN : CreatePromptVersion(id, fail)
    \/ \E id \in PromptIdArgs, name \in PromptNames \cup {None}, version \in VersionArgs,
          return_chat_template \in BOOLEAN, fail \in {"none", "list_prompts", "get_prompt"} :
          GetPrompt(id, name, version, return_chat_template, fail)
    \/ \E name \in PromptNames \cup {None}, fail \in BOOLEAN : ListPrompts(name, fail)
    \/ \E id \in PromptIdArgs, version \in VersionArgs, fail \in BOOLEAN :
          DeletePrompt(id, version, fail)

SpecManager == InitManager /\ [][NextManager]_vars

(***************************************************************************)
(* Claims about the codec                                                  *)
(***************************************************************************)

IsPlaceholder(e) == e.cls = "MessagesPlaceholder"

NoDelimiter(s) == ~Contains(s, DELIMITER)

RECURSIVE BraceDepth(_, _)
\* the nesting depth after s, or -1 once a "}" closes nothing
BraceDepth(s, depth) ==
    IF s = <<>> THEN depth
    ELSE IF Head(s) = "{" THEN BraceDepth(Tail(s), depth + 1)
    ELSE IF Head(s) = "}"
         THEN (IF depth = 0 THEN -1 ELSE BraceDepth(Tail(s), depth - 1))
    ELSE BraceDepth(Tail(s), depth)

\* no unmatched braces
Balanced(s) == BraceDepth(s, 0) = 0

Encoded == "convert" \in called
\* convert_chat_prompt_to_text has just returned
Returned == called = {"convert"}
Decoded == "parse" \in called

\* the role a decoded message must have for a message of the prompt
ExpectedRole(e) ==
    IF get_message_role(e) = UnknownStr THEN SystemStr ELSE get_message_role(e)

SameEntry(orig, dec) ==
    IF IsPlaceholder(orig)
    THEN IsPlaceholder(dec) /\ dec.body = orig.body
    ELSE /\ ~IsPlaceholder(dec)
         /\ get_message_role(dec) = ExpectedRole(orig)
         /\ dec.body = orig.body

RoundTrips ==
    /\ ~parsed.raised
    /\ Len(parsed.messages) = Len(chat_prompt)
    /\ \A i \in 1..Len(chat_prompt) :
          i <= Len(parsed.messages) => SameEntry(chat_prompt[i], parsed.messages[i])

\* the precondition of C1 as written: contents without delimiter or unmatched braces
CleanContents ==
    \A i \in 1..Len(chat_prompt) :
        ~IsPlaceholder(chat_prompt[i]) =>
            NoDelimiter(chat_prompt[i].body) /\ Balanced(chat_prompt[i].body)

TrimmedContents ==
    \A i \in 1..Len(chat_prompt) :
        IF IsPlaceholder(chat_prompt[i])
        THEN /\ Strip(chat_prompt[i].body) = chat_prompt[i].body
             /\ NoDelimiter(chat_prompt[i].body)
        ELSE /\ chat_prompt[i].body # <<>>
             /\ Strip(chat_prompt[i].body) = chat_prompt[i].body
             /\ FormatParse(chat_prompt[i].body).ok

LineLabel(line) == Partition(line, ":")[1]

MessageEntries == {i \in 1..Len(chat_prompt) : ~IsPlaceholder(chat_prompt[i])}

\* C3 as written: every message line of the encoder's text has a role label in
\* {Human, AI, System}, whatever the class of the message.
C3_NeverUnknownAsWritten ==
    Returned => \A i \in MessageEntries :
                  LineLabel(prompt_lines[i]) \in {HumanStr, AIStr, SystemStr}

\* C3 amended: every message line has a role label in {Human, AI, System, Unknown},
\* followed by ": ", and the label is Unknown exactly for a message whose class is
\* none of the human, AI and system classes.
C3_RoleLabels ==
    Returned => \A i \in MessageEntries :
        LET label == LineLabel(prompt_lines[i])
        IN  /\ label \in {HumanStr, AIStr, SystemStr, UnknownStr}
            /\ StartsWith(prompt_lines[i], label \o <<":", " ">>)
            /\ label = UnknownStr <=> chat_prompt[i].cls \in OtherClasses
            /\ label = HumanStr <=> chat_prompt[i].cls \in HumanClasses
            /\ label = AIStr <=> chat_prompt[i].cls \in AIClasses

C3_Witness ==
    /\ Returned
    /\ \E i \in MessageEntries :
          chat_prompt[i].cls \in OtherClasses /\ LineLabel(prompt_lines[i]) = UnknownStr
    /\ \E i \in MessageEntries : LineLabel(prompt_lines[i]) = AIStr

\* the pieces of the encoder's text, split on the delimiter
TextPiecesOf(text) == Split(text, DELIMITER)

OnePiecePerEntry ==
    LET pieces == TextPiecesOf(prompt_text)
    IN  /\ Len(pieces) = Len(chat_prompt)
        /\ \A i \in 1..Len(chat_prompt) :
              i <= Len(pieces) => Strip(pieces[i]) = Strip(prompt_lines[i])

\* C4 as written: for every chat prompt, any contents and any placeholder names,
\* splitting the encoder's text on the delimiter yields one piece per entry, in
\* entry order.
C4_SplitAsWritten == Returned => OnePiecePerEntry

\* C4 amended: that holds for every chat prompt with at least one entry whose
\* placeholder names do not contain the delimiter (message contents are any).
C4_Split ==
    (/\ Returned
     /\ chat_prompt # <<>>
     /\ \A i \in 1..Len(chat_prompt) :
           IsPlaceholder(chat_prompt[i]) => NoDelimiter(chat_prompt[i].body))
    => OnePiecePerEntry

C4_Witness ==
    /\ Returned
    /\ Len(chat_prompt) >= 2
    /\ \A i \in 1..Len(chat_prompt) :
          IsPlaceholder(chat_prompt[i]) => NoDelimiter(chat_prompt[i].body)
    /\ \E i \in MessageEntries :
          Contains(chat_prompt[i].body, DELIMITER) \/ EndsWith(chat_prompt[i].body, <<"\n">>)

RecognizedClasses == HumanClasses \cup AIClasses \cup SystemClasses

\* C5: the encoding of a chat prompt whose first entry is a message of a human, AI
\* or system class is classified as chat by is_chat_prompt.
C5_ClassifiedChat ==
    (/\ Encoded /\ "classify" \in called
     /\ chat_prompt # <<>>
     /\ chat_prompt[1].cls \in RecognizedClasses)
    => is_chat = TRUE

C5_Witness ==
    /\ Encoded /\ "classify" \in called
    /\ Len(chat_prompt) >= 2
    /\ chat_prompt[1].cls \in SystemClasses
    /\ is_chat = TRUE

\* C7: the returned variable list has no duplicates and holds exactly the names of
\* the placeholders and the input variables of the message prompt templates;
\* a static message adds none, braces in its content or not.
C7_Variables ==
    Returned =>
        /\ \A i, j \in 1..Len(input_variables) :
              input_variables[i] = input_variables[j] => i = j
        /\ {input_variables[i] : i \in 1..Len(input_variables)}
             = {chat_prompt[i].body : i \in {j \in 1..Len(chat_prompt) : IsPlaceholder(chat_prompt[j])}}
               \cup UNION {chat_prompt[i].input_variables :
                              i \in {j \in 1..Len(chat_prompt) : HasPrompt(chat_prompt[j])}}

C7_Witness ==
    /\ Returned
    /\ \E i, j \in 1..Len(chat_prompt) :
          /\ i < j
          /\ IsPlaceholder(chat_prompt[i])
          /\ IsPlaceholder(chat_prompt[j]) \/ HasPrompt(chat_prompt[j])
          /\ chat_prompt[i].body \in
                (IF IsPlaceholder(chat_prompt[j]) THEN {chat_prompt[j].body}
                 ELSE chat_prompt[j].input_variables)
    /\ \E i \in MessageEntries :
          ~HasPrompt(chat_prompt[i]) /\ Contains(chat_prompt[i].body, <<"{">>)
    /\ Len(input_variables) = 1

(***************************************************************************)
(* Claims about the decoder, on any flat text                              *)
(***************************************************************************)

\* the delimiter-separated lines of the text, each trimmed
TrimmedLines ==
    LET pieces == Split(prompt_text, DELIMITER)
    IN  [i \in 1..Len(pieces) |-> Strip(pieces[i])]

IsPlaceholderLine(line) == StartsWith(line, <<"{", "{">>) /\ EndsWith(line, <<"}", "}">>)

\* the trimmed text before and after the first colon of a line
LabelOf(line) == Strip(Partition(line, ":")[1])
ContentOf(line) == Strip(Partition(line, ":")[2])

\* a line C10 says is emitted: not empty, and a placeholder line or one with content
Emitted(line) == line # <<>> /\ (IsPlaceholderLine(line) \/ ContentOf(line) # <<>>)

EmittedLines == SelectSeq(TrimmedLines, Emitted)

\* C2 as written: parse_chat_messages returns a sequence for every input string
\* and never ends in an error.
C2_ParseTotal == Decoded => ~parsed.raised

\* C10 as written: parse_chat_messages returns, in line order, exactly one entry
\* for each line that is a placeholder line or has content after its first colon,
\* a placeholder for a placeholder line and a message otherwise, and drops every
\* other line without error.
C10_OneEntryPerLine ==
    Decoded =>
        /\ ~parsed.raised
        /\ Len(parsed.messages) = Len(EmittedLines)
        /\ \A k \in 1..Len(parsed.messages) :
              k <= Len(EmittedLines) =>
                  (IsPlaceholder(parsed.messages[k]) <=> IsPlaceholderLine(EmittedLines[k]))

\* C6: every message the decoder builds has the role of its line's label when
\* that is Human, AI or System and the role System for any other label; it is a
\* message prompt template when the content holds both "{{" and "}}" and a static
\* message otherwise; no class outside the six human, AI and system ones is built.
C6_DecodedRoles ==
    Decoded =>
        LET lines == EmittedLines
        IN  /\ Len(parsed.messages) <= Len(lines)
            /\ \A k \in 1..Len(parsed.messages) :
                  LET m == parsed.messages[k]
                      label == LabelOf(lines[k])
                  IN  ~IsPlaceholderLine(lines[k]) =>
                          /\ m.cls \in RecognizedClasses
                          /\ get_message_role(m) =
                                (IF label \in {HumanStr, AIStr, SystemStr} THEN label
                                 ELSE SystemStr)
                          /\ HasPrompt(m) <=>
                                (/\ Contains(ContentOf(lines[k]), <<"{", "{">>)
                                 /\ Contains(ContentOf(lines[k]), <<"}", "}">>))

C6_Witness ==
    /\ Decoded
    /\ StartsWith(prompt_text, UnknownStr \o <<":">>)
    /\ Len(parsed.messages) = 1
    /\ parsed.messages[1].cls = "SystemMessagePromptTemplate"

(***************************************************************************)
(* Claims about PromptManager (SpecManager)                                *)
(***************************************************************************)

RecognizedKinds == {"PromptTemplate", "ChatPromptTemplate"}

\* this step is a call of create_prompt
CreatePromptStep == Len(calls') = Len(calls) + 1 /\ last'.op = "create_prompt"

\* the texts and variable lists the encoder may return for last'.prompt_template
EncodedVariants ==
    {create_variant(r.text, r.input_variables) :
        r \in convert_prompt_template_to_text(last'.prompt_template).results}

\* C8: create_prompt with a template that is neither plain nor chat ends in the
\* encoder's TypeError, issues no request to the service and leaves _prompt_id
\* and the service as they were; with a plain or a chat template it issues one
\* request, a create_prompt carrying a text and variable list the encoder returns.
C8_UnsupportedKind ==
    [][CreatePromptStep =>
          IF last'.prompt_template.kind \in RecognizedKinds
          THEN /\ last'.outcome \in {"returned", "ClientError"}
               /\ Len(last'.issued) = 1
               /\ last'.issued[1].api = "create_prompt"
               /\ last'.issued[1].variant \in EncodedVariants
          ELSE /\ last'.outcome = "TypeError"
               /\ last'.issued = <<>>
               /\ prompt_id' = prompt_id
               /\ bedrock' = bedrock]_vars

\* create_prompt has just refused a template of another kind, on a manager that
\* remembered a prompt from an earlier create_prompt
C8_Witness ==
    /\ last.op = "create_prompt"
    /\ last.prompt_template.kind \notin RecognizedKinds
    /\ last.outcome = "TypeError"
    /\ prompt_id # None
    /\ bedrock.prompts # <<>>

\* every call so far was a create_prompt or a get_prompt that returned
OnlyCreatedAndRetrieved ==
    \A i \in 1..Len(calls) :
        calls[i].op \in {"create_prompt", "get_prompt"} /\ calls[i].outcome = "returned"

\* C9: after create_prompt and get_prompt calls that all returned, the last of
\* which created or retrieved a prompt, _prompt_id is the id of that prompt.
C9_RememberedPrompt ==
    (calls # <<>> /\ OnlyCreatedAndRetrieved /\ last.prompt # None)
        => prompt_id = last.prompt

\* the last call is a get_prompt that read a stored prompt from the service
LastRead ==
    /\ last.op = "get_prompt"
    /\ last.outcome \in {"returned", "ValueError"}
    /\ last.issued # <<>>
    /\ last.issued[Len(last.issued)].api = "get_prompt"

\* the prompt it read, as the service stores it
ReadPrompt == bedrock.prompts[last.issued[Len(last.issued)].promptIdentifier]

\* a chat prompt that opens with a placeholder or with a message of no known role
LeadingNotChat(messages) ==
    /\ messages # <<>>
    /\ IsPlaceholder(messages[1]) \/ get_message_role(messages[1]) = UnknownStr

\* the texts convert_chat_prompt_to_text writes for such prompts
NotChatEncodings ==
    {r.text : r \in UNION {convert_chat_prompt_to_text(t.messages) :
                              t \in {u \in PromptTemplates :
                                        /\ u.kind = "ChatPromptTemplate"
                                        /\ LeadingNotChat(u.messages)}}}

\* C11: the text written for a chat prompt whose first entry is a placeholder or a
\* message of unrecognized kind is not a chat prompt for is_chat_prompt, and a
\* get_prompt that reads it returns a PromptTemplate of that text, whatever
\* return_chat_template is: it neither builds a chat template nor raises from
\* parse_chat_messages.
C11_LeadingPlaceholderReadsPlain ==
    (LastRead /\ ReadPrompt.text \in NotChatEncodings)
        => /\ ~is_chat_prompt(ReadPrompt.text)
           /\ last.outcome = "returned"
           /\ last.result.kind = "PromptTemplate"

\* get_prompt has read the text of a prompt that opens with a placeholder
C11_Witness ==
    /\ LastRead
    /\ ReadPrompt.text \in NotChatEncodings
    /\ StartsWith(ReadPrompt.text, <<"{", "{">>)
    /\ last.result = PlainTemplate(ReadPrompt.text, ReadPrompt.inputVariables)

RECURSIVE Doubled(_)
\* s with every brace written twice
Doubled(s) ==
    IF s = <<>> THEN <<>>
    ELSE (IF Head(s) \in {"{", "}"} THEN <<Head(s), Head(s)>> ELSE <<Head(s)>>)
         \o Doubled(Tail(s))

\* get_prompt has returned a PromptTemplate for the prompt it read
PlainRead == LastRead /\ last.outcome = "returned" /\ last.result.kind = "PromptTemplate"

\* the template returned pairs the stored text with the stored variable list
ReadsBackStored ==
    PlainRead => /\ last.result.template = ReadPrompt.text
                 /\ last.result.input_variables = ReadPrompt.inputVariables

\* a create_prompt of a PromptTemplate stores its template with every brace
\* doubled, which is another text once the template has a brace, and its variables
\* as they are listed
WritesDoubled ==
    (/\ CreatePromptStep
     /\ last'.outcome = "returned"
     /\ last'.prompt_template.kind = "PromptTemplate")
        => /\ last'.prompt \in DOMAIN bedrock'.prompts
           /\ bedrock'.prompts[last'.prompt].text = Doubled(last'.prompt_template.template)
           /\ bedrock'.prompts[last'.prompt].inputVariables =
                 last'.prompt_template.input_variables
           /\ (\E i \in 1..Len(last'.prompt_template.template) :
                  last'.prompt_template.template[i] \in {"{", "}"})
                 => bedrock'.prompts[last'.prompt].text # last'.prompt_template.template

\* C12: a get_prompt that returns a PromptTemplate returns the stored text character
\* for character and the stored variable list in its order; create_prompt stores a
\* plain template with its braces doubled and get_prompt does not undo it, so
\* what is read after create_prompt is the doubled text, not the original.
C12_PlainReadKeepsDoubling == []ReadsBackStored /\ [][WritesDoubled]_vars

\* get_prompt has returned the doubled text of a plain template with braces and two
\* variables, in their order
C12_Witness ==
    /\ PlainRead
    /\ \E t \in PromptTemplates :
          /\ t.kind = "PromptTemplate"
          /\ Len(t.input_variables) = 2
          /\ last.result.template = Doubled(t.template)
          /\ last.result.template # t.template
          /\ last.result.input_variables = t.input_variables

====
